---- MODULE Spec2Model ----
(***************************************************************************)
(* Model of scripts/merge_model.py: the command-line entry point main()    *)
(* and merge_lora_adapter(), run by a small number of operating-system     *)
(* processes over one shared file system.                                  *)
(*                                                                         *)
(* Library and OS calls (from_pretrained, merge_and_unload,               *)
(* save_pretrained, makedirs, open/json.dump) are modelled by their effect *)
(* on the file system and by a nondeterministic choice between returning   *)
(* and raising an Exception-derived error.  Asynchronous termination of    *)
(* the process (signals, KeyboardInterrupt) is not modelled.               *)
(***************************************************************************)
EXTENDS Integers, Sequences, FiniteSets, TLC

(* ------------------------------ bounds -------------------------------- *)

\* longest sys.argv drawn (script name included)
MaxArgv == 5

(* ------------------------- program constants -------------------------- *)

\* main(): `if len(sys.argv) < 4`
MinArgv == 4

Procs == {1, 2}
BaseIds == {"b1", "b2"}
Paths == {"d1", "d2"}
Script == "merge_model.py"
Extra == "extra"

\* main(): required_files, in list order
required_files == <<"adapter_config.json", "adapter_model.safetensors">>

RequiredSet == {required_files[k] : k \in 1..Len(required_files)}

\* the library and OS calls of merge_lora_adapter, in program order
CallOrder ==
  << "base_from_pretrained", "peft_from_pretrained", "merge_and_unload",
     "makedirs", "save_pretrained", "tok_from_pretrained",
     "tok_save_pretrained", "open_dump" >>

\* variant: the try block ends before merge_info.json is written
TryBlockNarrow ==
  { "load_base", "attach", "merge", "makedirs", "save_weights",
    "load_tok", "save_tok" }

\* program positions inside the try block of merge_lora_adapter
TryBlock ==
  { "load_base", "attach", "merge", "makedirs", "save_weights",
    "load_tok", "save_tok", "write_info" }

VARIABLES
  fs,      \* the file system: path -> directory entry
  pc,      \* process -> program position
  argv,    \* process -> sys.argv
  ret,     \* process -> return value of merge_lora_adapter
  exc,     \* process -> description of the exception raised in the merge
  out,     \* process -> messages printed (stdout and stderr together)
  exit,    \* process -> exit status, NoExit while running
  calls,   \* process -> library/OS calls made by merge_lora_adapter so far
  pre,     \* process -> the file system as it was when the process started
  last     \* the most recently started process

vars == <<fs, pc, argv, ret, exc, out, exit, calls, pre, last>>

NoExit == 0 - 1

(* ----------------------------- file system ---------------------------- *)

\* a path that does not exist
Absent == [kind |-> "absent", req |-> {}, weights |-> {}, tok |-> {}, info |-> {}]

\* an empty directory, as os.makedirs creates it
EmptyDir == [kind |-> "dir", req |-> {}, weights |-> {}, tok |-> {}, info |-> {}]

\* a regular file at the path
PlainFile == [kind |-> "file", req |-> {}, weights |-> {}, tok |-> {}, info |-> {}]

\* a directory holding the given subset of the adapter's required files
AdapterDir(have) == [kind |-> "dir", req |-> have, weights |-> {}, tok |-> {}, info |-> {}]

InitialEntries == {Absent, PlainFile} \cup {AdapterDir(h) : h \in SUBSET RequiredSet}

\* os.path.exists(path)
Exists(f, p) == f[p].kind # "absent"

\* os.path.exists(os.path.join(path, name)) for a required adapter file
ExistsIn(f, p, name) == f[p].kind = "dir" /\ name \in f[p].req

\* content that save_pretrained writes for the merged model
WeightsOf(b, a) == [base |-> b, adapter |-> a, complete |-> TRUE]

\* content left by a weight save that raised part-way
PartialWeights(b, a) == [base |-> b, adapter |-> a, complete |-> FALSE]

\* content that tokenizer.save_pretrained writes
TokOf(a) == [adapter |-> a, complete |-> TRUE]

\* content left by a tokenizer save that raised part-way
PartialTok(a) == [adapter |-> a, complete |-> FALSE]

\* variant: the two path fields exchanged
MetadataSwapped(b, a) ==
  [base_model |-> a, adapter_path |-> b, merged_by |-> "rag-dashboard", dtype |-> "float16"]

\* the metadata dict dumped to merge_info.json
Metadata(b, a) ==
  [base_model |-> b, adapter_path |-> a, merged_by |-> "rag-dashboard", dtype |-> "float16"]

\* merge_info.json opened for writing (truncated) and not completely dumped
Truncated == [truncated |-> TRUE]

(* ------------------------------ arguments ----------------------------- *)

\* sys.argv of length n: script name, then the positional arguments
ArgvOf(b, a, o, n) ==
  SubSeq(<<Script, b, a, o>> \o [k \in 1..(MaxArgv - 4) |-> Extra], 1, n)

ArgvSet ==
  {ArgvOf(b, a, o, n) : b \in BaseIds, a \in Paths, o \in Paths, n \in 1..MaxArgv}

\* base_model_path = sys.argv[1] (sequences are 1-based, argv[0] is at 1)
base_model_path(i) == argv[i][2]

\* adapter_path = sys.argv[2]
adapter_path(i) == argv[i][3]

\* output_path = sys.argv[3]
output_path(i) == argv[i][4]

Msg(m, names) == [msg |-> m, names |-> names]

(* ------------------------------- Init --------------------------------- *)

Init ==
  /\ fs \in [Paths -> InitialEntries]
  /\ pc = [i \in Procs |-> "idle"]
  /\ argv = [i \in Procs |-> <<Script>>]
  /\ ret = [i \in Procs |-> "none"]
  /\ exc = [i \in Procs |-> "none"]
  /\ out = [i \in Procs |-> <<>>]
  /\ exit = [i \in Procs |-> NoExit]
  /\ calls = [i \in Procs |-> <<>>]
  /\ pre = [i \in Procs |-> fs]
  /\ last = 0

\* two invocations at the same time: every path is absent or a complete
\* adapter directory
InitConc ==
  /\ Init
  /\ \A p \in Paths : fs[p] \in {Absent, AdapterDir(RequiredSet)}

(* ------------------------------ helpers ------------------------------- *)

\* print(...): append messages to the process's output
Emit(i, msgs) == out' = [out EXCEPT ![i] = @ \o msgs]

Goto(i, where) == pc' = [pc EXCEPT ![i] = where]

\* record a library/OS call made by merge_lora_adapter
Call(i, name) == calls' = [calls EXCEPT ![i] = Append(@, name)]

\* sys.exit(code)
SysExit(i, code) == exit' = [exit EXCEPT ![i] = code] /\ Goto(i, "done")

\* a statement completes and control moves on, printing msgs
Proceed(i, where, msgs) ==
  /\ Goto(i, where)
  /\ Emit(i, msgs)
  /\ UNCHANGED <<exc, exit, ret>>

\* a statement raises an Exception: inside the try block the except clause
\* runs (it prints the error's description and returns False); outside it
\* the exception leaves the function and the interpreter ends the process
\* with a traceback and status 1
Raise(i, desc) ==
  /\ exc' = [exc EXCEPT ![i] = desc]
  /\ IF pc[i] \in TryBlock
       THEN /\ Emit(i, <<Msg("merge_error", <<desc>>)>>)
            /\ ret' = [ret EXCEPT ![i] = "false"]
            /\ Goto(i, "after_merge")
            /\ UNCHANGED exit
       ELSE /\ Emit(i, <<Msg("traceback", <<desc>>)>>)
            /\ SysExit(i, 1)
            /\ UNCHANGED ret

\* os.makedirs(path, exist_ok=...) raises FileExistsError
makedirs_raises(entry, exist_ok) ==
  \/ entry.kind = "file"
  \/ entry.kind = "dir" /\ ~exist_ok

\* variant: makedirs called without exist_ok
exist_okFalse == FALSE

\* merge_lora_adapter passes exist_ok=True
exist_ok == TRUE

\* variant: reports every required file as soon as one is missing
missing_filesAll(f, p) ==
  IF \A k \in 1..Len(required_files) : ExistsIn(f, p, required_files[k])
    THEN <<>>
    ELSE required_files

\* missing_files = [f for f in required_files if not exists(join(adapter_path, f))]
missing_files(f, p) == SelectSeq(required_files, LAMBDA name : ~ExistsIn(f, p, name))

Active(i) == pc[i] \notin {"idle", "done"}

(* ------------------------------ main() -------------------------------- *)

\* the operating system starts the script with some argv
Begin(i) ==
  /\ \E av \in ArgvSet : argv' = [argv EXCEPT ![i] = av]
  /\ pc' = [pc EXCEPT ![i] = "check_args"]
  /\ ret' = [ret EXCEPT ![i] = "none"]
  /\ exc' = [exc EXCEPT ![i] = "none"]
  /\ out' = [out EXCEPT ![i] = <<>>]
  /\ exit' = [exit EXCEPT ![i] = NoExit]
  /\ calls' = [calls EXCEPT ![i] = <<>>]
  /\ pre' = [pre EXCEPT ![i] = fs]
  /\ last' = i
  /\ UNCHANGED fs

\* invocations one after another, in the order of their process numbers:
\* none is running when the next starts
StartSeq(i) ==
  /\ pc[i] = "idle"
  /\ \A j \in Procs : ~Active(j)
  /\ \A j \in Procs : j < i => pc[j] = "done"
  /\ Begin(i)

\* simultaneous invocations: each process is started once, at any time
StartConc(i) ==
  /\ pc[i] = "idle"
  /\ Begin(i)

\* variant: rejects every argument count other than three
CheckArgsExact(i) ==
  /\ pc[i] = "check_args"
  /\ IF Len(argv[i]) # MinArgv
       THEN /\ Emit(i, <<Msg("usage", <<>>)>>)
            /\ SysExit(i, 1)
       ELSE /\ Goto(i, "check_path")
            /\ UNCHANGED <<out, exit>>
  /\ UNCHANGED <<fs, argv, ret, exc, calls, pre, last>>

\* if len(sys.argv) < 4: usage, sys.exit(1)
CheckArgs(i) ==
  /\ pc[i] = "check_args"
  /\ IF Len(argv[i]) < MinArgv
       THEN /\ Emit(i, <<Msg("usage", <<>>)>>)
            /\ SysExit(i, 1)
       ELSE /\ Goto(i, "check_path")
            /\ UNCHANGED <<out, exit>>
  /\ UNCHANGED <<fs, argv, ret, exc, calls, pre, last>>

\* if not os.path.exists(adapter_path): message, sys.exit(1)
CheckPath(i) ==
  /\ pc[i] = "check_path"
  /\ IF ~Exists(fs, adapter_path(i))
       THEN /\ Emit(i, <<Msg("no_adapter_path", <<adapter_path(i)>>)>>)
            /\ SysExit(i, 1)
       ELSE /\ Goto(i, "check_files")
            /\ UNCHANGED <<out, exit>>
  /\ UNCHANGED <<fs, argv, ret, exc, calls, pre, last>>

\* the required-file check, then the banner and the first message of the merge
CheckFiles(i) ==
  /\ pc[i] = "check_files"
  /\ LET missing == missing_files(fs, adapter_path(i)) IN
       IF missing # <<>>
         THEN /\ Emit(i, <<Msg("missing_files", missing)>>)
              /\ SysExit(i, 1)
         ELSE /\ Emit(i, <<Msg("banner", <<base_model_path(i), adapter_path(i), output_path(i)>>),
                          Msg("loading_base", <<base_model_path(i)>>)>>)
              /\ Goto(i, "load_base")
              /\ UNCHANGED exit
  /\ UNCHANGED <<fs, argv, ret, exc, calls, pre, last>>

\* variant: the failure branch exits with status 0
FinishZero(i) ==
  /\ pc[i] = "after_merge"
  /\ IF ret[i] = "true"
       THEN Emit(i, <<Msg("merge_complete", <<output_path(i)>>)>>)
       ELSE Emit(i, <<Msg("merge_failed", <<>>)>>)
  /\ SysExit(i, 0)
  /\ UNCHANGED <<fs, argv, ret, exc, calls, pre, last>>

\* if success: summary, sys.exit(0); else: sys.exit(1)
Finish(i) ==
  /\ pc[i] = "after_merge"
  /\ IF ret[i] = "true"
       THEN /\ Emit(i, <<Msg("merge_complete", <<output_path(i)>>)>>)
            /\ SysExit(i, 0)
       ELSE /\ Emit(i, <<Msg("merge_failed", <<>>)>>)
            /\ SysExit(i, 1)
  /\ UNCHANGED <<fs, argv, ret, exc, calls, pre, last>>

(* ------------------------ merge_lora_adapter() ------------------------ *)

\* the parts of the state no statement of the merge changes
Frame == UNCHANGED <<argv, pre, last>>

\* variant: a failed load of the base model is tried again
LoadBaseRetry(i) ==
  /\ pc[i] = "load_base"
  /\ Call(i, "base_from_pretrained")
  /\ \/ Proceed(i, "attach", <<Msg("base_loaded", <<>>),
                               Msg("loading_adapter", <<adapter_path(i)>>)>>)
     \/ /\ exc' = [exc EXCEPT ![i] = "EnvError"]
        /\ UNCHANGED <<pc, out, exit, ret>>
  /\ UNCHANGED fs
  /\ Frame

\* variant: the output directory is created before the base model is loaded
LoadBaseMakesDir(i) ==
  /\ pc[i] = "load_base"
  /\ Call(i, "base_from_pretrained")
  /\ \/ Proceed(i, "attach", <<Msg("base_loaded", <<>>),
                               Msg("loading_adapter", <<adapter_path(i)>>)>>)
     \/ Raise(i, "EnvError")
  /\ fs' = IF fs[output_path(i)].kind = "absent"
             THEN [fs EXCEPT ![output_path(i)] = EmptyDir]
             ELSE fs
  /\ Frame

\* base_model = AutoModelForCausalLM.from_pretrained(base_model_path, ...)
LoadBase(i) ==
  /\ pc[i] = "load_base"
  /\ Call(i, "base_from_pretrained")
  /\ \/ Proceed(i, "attach", <<Msg("base_loaded", <<>>),
                               Msg("loading_adapter", <<adapter_path(i)>>)>>)
     \/ Raise(i, "EnvError")
  /\ UNCHANGED fs
  /\ Frame

\* model = PeftModel.from_pretrained(base_model, adapter_path)
Attach(i) ==
  /\ pc[i] = "attach"
  /\ Call(i, "peft_from_pretrained")
  /\ \/ Proceed(i, "merge", <<Msg("adapter_loaded", <<>>), Msg("merging", <<>>)>>)
     \/ Raise(i, "EnvError")
  /\ UNCHANGED fs
  /\ Frame

\* merged_model = model.merge_and_unload()
Merge(i) ==
  /\ pc[i] = "merge"
  /\ Call(i, "merge_and_unload")
  /\ \/ Proceed(i, "makedirs", <<Msg("weights_merged", <<>>),
                                 Msg("saving_model", <<output_path(i)>>)>>)
     \/ Raise(i, "EnvError")
  /\ UNCHANGED fs
  /\ Frame

\* os.makedirs(output_path, exist_ok=True)
MakeDirs(i) ==
  /\ pc[i] = "makedirs"
  /\ Call(i, "makedirs")
  /\ LET o == output_path(i) IN
       \/ /\ makedirs_raises(fs[o], exist_ok)
          /\ Raise(i, "FileExistsError")
          /\ UNCHANGED fs
       \/ /\ ~makedirs_raises(fs[o], exist_ok)
          /\ fs' = IF fs[o].kind = "absent" THEN [fs EXCEPT ![o] = EmptyDir] ELSE fs
          /\ Proceed(i, "save_weights", <<>>)
       \/ /\ fs[o].kind = "absent"
          /\ Raise(i, "EnvError")
          /\ UNCHANGED fs
  /\ Frame

\* variant: the weights are saved only while no other process is between
\* its weight save and its write of merge_info.json
SaveWeightsLocked(i) ==
  /\ pc[i] = "save_weights"
  /\ \A j \in Procs \ {i} : pc[j] \notin {"load_tok", "save_tok", "write_info"}
  /\ Call(i, "save_pretrained")
  /\ LET o == output_path(i)
         b == base_model_path(i)
         a == adapter_path(i) IN
       \/ /\ fs' = [fs EXCEPT ![o].weights = {WeightsOf(b, a)}]
          /\ Proceed(i, "load_tok", <<Msg("model_saved", <<>>), Msg("saving_tokenizer", <<>>)>>)
       \/ /\ fs' \in {fs, [fs EXCEPT ![o].weights = {PartialWeights(b, a)}]}
          /\ Raise(i, "EnvError")
  /\ Frame

\* merged_model.save_pretrained(output_path, safe_serialization=True, ...)
SaveWeights(i) ==
  /\ pc[i] = "save_weights"
  /\ Call(i, "save_pretrained")
  /\ LET o == output_path(i)
         b == base_model_path(i)
         a == adapter_path(i) IN
       \/ /\ fs' = [fs EXCEPT ![o].weights = {WeightsOf(b, a)}]
          /\ Proceed(i, "load_tok", <<Msg("model_saved", <<>>), Msg("saving_tokenizer", <<>>)>>)
       \/ /\ fs' \in {fs, [fs EXCEPT ![o].weights = {PartialWeights(b, a)}]}
          /\ Raise(i, "EnvError")
  /\ Frame

\* tokenizer = AutoTokenizer.from_pretrained(adapter_path)
LoadTok(i) ==
  /\ pc[i] = "load_tok"
  /\ Call(i, "tok_from_pretrained")
  /\ \/ Proceed(i, "save_tok", <<>>)
     \/ Raise(i, "EnvError")
  /\ UNCHANGED fs
  /\ Frame

\* variant: merge_info.json is written together with the tokenizer
SaveTokWritesInfo(i) ==
  /\ pc[i] = "save_tok"
  /\ Call(i, "tok_save_pretrained")
  /\ LET o == output_path(i)
         a == adapter_path(i) IN
       \/ /\ fs' = [fs EXCEPT ![o].tok = {TokOf(a)},
                              ![o].info = {Metadata(base_model_path(i), a)}]
          /\ Proceed(i, "write_info", <<Msg("tokenizer_saved", <<>>)>>)
       \/ /\ fs' \in {fs, [fs EXCEPT ![o].tok = {PartialTok(a)}]}
          /\ Raise(i, "EnvError")
  /\ Frame

\* tokenizer.save_pretrained(output_path)
SaveTok(i) ==
  /\ pc[i] = "save_tok"
  /\ Call(i, "tok_save_pretrained")
  /\ LET o == output_path(i)
         a == adapter_path(i) IN
       \/ /\ fs' = [fs EXCEPT ![o].tok = {TokOf(a)}]
          /\ Proceed(i, "write_info", <<Msg("tokenizer_saved", <<>>)>>)
       \/ /\ fs' \in {fs, [fs EXCEPT ![o].tok = {PartialTok(a)}]}
          /\ Raise(i, "EnvError")
  /\ Frame

\* with open(join(output_path, "merge_info.json"), "w") as f: json.dump(...)
\* followed by the success message and `return True`
WriteInfo(i) ==
  /\ pc[i] = "write_info"
  /\ Call(i, "open_dump")
  /\ LET o == output_path(i) IN
       \/ /\ fs' = [fs EXCEPT ![o].info = {Metadata(base_model_path(i), adapter_path(i))}]
          /\ Goto(i, "after_merge")
          /\ Emit(i, <<Msg("merge_success", <<o>>)>>)
          /\ ret' = [ret EXCEPT ![i] = "true"]
          /\ UNCHANGED <<exc, exit>>
       \/ /\ fs' \in {fs, [fs EXCEPT ![o].info = {Truncated}]}
          /\ Raise(i, "EnvError")
  /\ Frame

(* --------------------------- specifications --------------------------- *)

Step(i) ==
  \/ CheckArgs(i)
  \/ CheckPath(i)
  \/ CheckFiles(i)
  \/ LoadBase(i)
  \/ Attach(i)
  \/ Merge(i)
  \/ MakeDirs(i)
  \/ SaveWeights(i)
  \/ LoadTok(i)
  \/ SaveTok(i)
  \/ WriteInfo(i)
  \/ Finish(i)

\* invocations run one after another
Next == \E i \in Procs : StartSeq(i) \/ Step(i)

Spec == Init /\ [][Next]_vars

\* two invocations run at the same time
NextConc == \E i \in Procs : StartConc(i) \/ Step(i)

SpecConc == InitConc /\ [][NextConc]_vars

(* ------------------------------ properties ---------------------------- *)

IsPrefix(s, t) == Len(s) <= Len(t) /\ SubSeq(t, 1, Len(s)) = s

\* the program positions of the merge, one per call of CallOrder
PcOrder ==
  << "load_base", "attach", "merge", "makedirs", "save_weights",
     "load_tok", "save_tok", "write_info" >>

Msgs(i) == {out[i][k].msg : k \in 1..Len(out[i])}

Finished(i) == pc[i] = "done"

\* the process got past the argument check
HasPositional(i) == Len(argv[i]) >= MinArgv

\* required files absent from path p of file system f, as a set
MissingSet(f, p) == {name \in RequiredSet : ~(f[p].kind = "dir" /\ name \in f[p].req)}

\* the directory entry holds nothing at all
IsEmptyOrAbsent(e) == e \in {Absent, EmptyDir}

\* C1: merge_lora_adapter returns True only if all eight calls of the six
\* stages were made and none raised; whenever a call raised, the function
\* returns False and no exception leaves it (no traceback, the process goes
\* on to main's failure branch).
C1_SuccessOnlyIfAllStages ==
  \A i \in Procs :
    /\ ret[i] = "true" => calls[i] = CallOrder /\ exc[i] = "none"
    /\ exc[i] # "none" =>
         /\ "traceback" \notin Msgs(i)
         /\ pc[i] \in {"after_merge", "done"}
         /\ ret[i] = "false"
    /\ Finished(i) /\ calls[i] # <<>> => ret[i] \in {"true", "false"}

\* C1 witness: the last call (writing merge_info.json) raised and the merge
\* returned False
C1_Witness ==
  \E i \in Procs :
    /\ Finished(i) /\ calls[i] = CallOrder
    /\ exc[i] = "EnvError" /\ ret[i] = "false"

\* C2: the calls of one invocation are made in program order, each at most
\* once: the calls made so far are always a prefix of CallOrder, a process at
\* the position of call k has made exactly the k-1 earlier calls and none of
\* them raised, and after a raise the process is never again at the position
\* of any call.
C2_StrictOrderNoRetry ==
  \A i \in Procs :
    /\ IsPrefix(calls[i], CallOrder)
    /\ \A k \in 1..Len(PcOrder) :
         pc[i] = PcOrder[k] => calls[i] = SubSeq(CallOrder, 1, k - 1) /\ exc[i] = "none"
    /\ exc[i] # "none" => pc[i] \in {"after_merge", "done"}

\* C2 witness: the weight save (stage 4) raised and the invocation ended
\* with exactly the calls up to it
C2_Witness ==
  \E i \in Procs :
    /\ Finished(i) /\ exc[i] = "EnvError"
    /\ calls[i] = SubSeq(CallOrder, 1, 5)

\* C3 as stated: every invocation whose positional argument count is not
\* exactly three exits 1 with the usage message and goes no further than
\* the argument check.
C3_Original ==
  \A i \in Procs :
    pc[i] # "idle" /\ Len(argv[i]) # MinArgv =>
      /\ pc[i] \in {"check_args", "done"}
      /\ Finished(i) => exit[i] = 1 /\ out[i] = <<Msg("usage", <<>>)>>

\* C3 amended: every invocation with fewer than three positional arguments
\* exits 1 with the usage message and goes no further than the argument
\* check; an invocation with three or more is never answered with the usage
\* message.
C3_TooFewArgsUsage ==
  \A i \in Procs :
    /\ pc[i] # "idle" /\ Len(argv[i]) < MinArgv =>
         /\ pc[i] \in {"check_args", "done"}
         /\ calls[i] = <<>>
         /\ Finished(i) => exit[i] = 1 /\ out[i] = <<Msg("usage", <<>>)>>
    /\ Len(argv[i]) >= MinArgv => "usage" \notin Msgs(i)

\* C3 witness: an invocation with two positional arguments has exited with
\* the usage message, and one with four has gone on to a completed merge
C3_Witness ==
  /\ \E i \in Procs : Finished(i) /\ Len(argv[i]) = 3 /\ "usage" \in Msgs(i)
  /\ \E i \in Procs : Finished(i) /\ Len(argv[i]) = 5 /\ exit[i] = 0

ToSet(sq) == {sq[k] : k \in 1..Len(sq)}

\* C4 as stated: whenever a required file is missing from the adapter path,
\* the path itself not existing included, the process exits 1 without any
\* model-loading call and its only message names exactly the missing files.
C4_Original ==
  \A i \in Procs :
    Finished(i) /\ HasPositional(i) /\ MissingSet(pre[i], adapter_path(i)) # {} =>
      /\ exit[i] = 1
      /\ calls[i] = <<>>
      /\ Len(out[i]) = 1
      /\ ToSet(out[i][1].names) = MissingSet(pre[i], adapter_path(i))

\* C4 amended: whenever a required file is missing from the adapter path the
\* process exits 1 without any model-loading call; if the adapter path
\* exists its only message names exactly the missing required files, and if
\* the adapter path does not exist its only message names the adapter path
\* and no file.
C4_MissingFilesNamed ==
  \A i \in Procs :
    Finished(i) /\ HasPositional(i) /\ MissingSet(pre[i], adapter_path(i)) # {} =>
      /\ exit[i] = 1
      /\ calls[i] = <<>>
      /\ Len(out[i]) = 1
      /\ IF Exists(pre[i], adapter_path(i))
           THEN /\ out[i][1].msg = "missing_files"
                /\ ToSet(out[i][1].names) = MissingSet(pre[i], adapter_path(i))
                /\ Len(out[i][1].names) = Cardinality(MissingSet(pre[i], adapter_path(i)))
           ELSE out[i][1] = Msg("no_adapter_path", <<adapter_path(i)>>)

\* C4 witness: one invocation ended on an adapter directory lacking exactly
\* one required file, another on an adapter path that does not exist
C4_Witness ==
  /\ \E i \in Procs :
       /\ Finished(i) /\ HasPositional(i)
       /\ MissingSet(pre[i], adapter_path(i)) = {"adapter_model.safetensors"}
  /\ \E i \in Procs :
       /\ Finished(i) /\ HasPositional(i)
       /\ ~Exists(pre[i], adapter_path(i))

\* C5: a finished process has exit status 0 or 1, and it is 0 exactly when
\* the argument check passed, the adapter path held both required files and
\* merge_lora_adapter returned True after all of its calls.
C5_ExitStatus ==
  \A i \in Procs :
    Finished(i) =>
      /\ exit[i] \in {0, 1}
      /\ exit[i] = 0 <=>
           /\ HasPositional(i)
           /\ MissingSet(pre[i], adapter_path(i)) = {}
           /\ ret[i] = "true"
           /\ calls[i] = CallOrder
           /\ exc[i] = "none"

\* C5 witness: one invocation finished with status 0 and another failed in
\* the merge with status 1
C5_Witness ==
  /\ \E i \in Procs : Finished(i) /\ exit[i] = 0
  /\ \E i \in Procs : Finished(i) /\ exit[i] = 1 /\ ret[i] = "false"

\* the positions at which merge_lora_adapter has returned
Returned(i) == pc[i] \in {"after_merge", "done"}

\* C6: when merge_lora_adapter has returned True and no later invocation has
\* started, the output path is a directory holding complete weights of the
\* base and adapter passed in, a complete tokenizer of that adapter, and a
\* merge_info.json that is exactly the four-field record of the two paths as
\* passed in, "rag-dashboard" and "float16".
C6_OutputAfterSuccess ==
  \A i \in Procs :
    i = last /\ Returned(i) /\ ret[i] = "true" =>
      LET e == fs[argv[i][4]] IN
        /\ e.kind = "dir"
        /\ e.weights = {[base |-> argv[i][2], adapter |-> argv[i][3], complete |-> TRUE]}
        /\ e.tok = {[adapter |-> argv[i][3], complete |-> TRUE]}
        /\ e.info = {[base_model |-> argv[i][2], adapter_path |-> argv[i][3],
                      merged_by |-> "rag-dashboard", dtype |-> "float16"]}

\* C6 witness: an invocation with base b2 and distinct adapter and output
\* paths has exited 0
C6_Witness ==
  \E i \in Procs :
    /\ Finished(i) /\ exit[i] = 0 /\ i = last
    /\ argv[i][2] = "b2" /\ argv[i][3] # argv[i][4]

\* C7: an output path that is already a directory never makes the merge
\* fail with FileExistsError, and when a successful merge is followed by a
\* second successful merge with the same three arguments, the output
\* directory after the second is exactly what it was after the first.
C7_RerunOverwrites ==
  \A j \in Procs :
    /\ HasPositional(j) /\ pre[j][output_path(j)].kind = "dir" => exc[j] # "FileExistsError"
    /\ \A i \in Procs :
         /\ i # j /\ j = last
         /\ Finished(i) /\ Finished(j)
         /\ ret[i] = "true" /\ ret[j] = "true"
         /\ SubSeq(argv[i], 2, 4) = SubSeq(argv[j], 2, 4)
         => fs[output_path(j)] = pre[j][output_path(j)]

\* C7 witness: the second of two successful merges with the same arguments
\* has finished, having found the first one's files in the output directory
C7_Witness ==
  \E i, j \in Procs :
    /\ i # j /\ j = last
    /\ Finished(i) /\ Finished(j)
    /\ ret[i] = "true" /\ ret[j] = "true"
    /\ SubSeq(argv[i], 2, 4) = SubSeq(argv[j], 2, 4)
    /\ pre[j][output_path(j)].info # {}

\* the positions at which a process is about to write under its output path
WritePositions == {"makedirs", "save_weights", "save_tok", "write_info"}

\* C8: no invocation ever waits for another: a process at a write position
\* can always take its step, whatever the other process is doing; and when
\* two invocations on the same output path have both exited 0, the weights
\* and the merge_info.json there are each what one of the two wrote, not
\* necessarily the same one.
C8_NoLockInterleaving ==
  /\ \A i \in Procs : pc[i] \in WritePositions => ENABLED Step(i)
  /\ \A i, j \in Procs :
       /\ i # j /\ Finished(i) /\ Finished(j)
       /\ exit[i] = 0 /\ exit[j] = 0
       /\ output_path(i) = output_path(j)
       => LET e == fs[output_path(i)] IN
            /\ e.weights \in { {WeightsOf(base_model_path(k), adapter_path(k))} : k \in {i, j} }
            /\ e.info \in { {Metadata(base_model_path(k), adapter_path(k))} : k \in {i, j} }

\* C8 witness: both invocations exited 0 on the same output path, the
\* weights there are those of one and merge_info.json is that of the other,
\* and merge_info.json does not describe the weights
C8_Witness ==
  \E i, j \in Procs :
    /\ i # j /\ Finished(i) /\ Finished(j)
    /\ exit[i] = 0 /\ exit[j] = 0
    /\ output_path(i) = output_path(j)
    /\ LET e == fs[output_path(i)] IN
         /\ e.weights = {WeightsOf(base_model_path(i), adapter_path(i))}
         /\ e.info = {Metadata(base_model_path(j), adapter_path(j))}
         /\ <<base_model_path(i), adapter_path(i)>> # <<base_model_path(j), adapter_path(j)>>

\* C9: as long as the latest invocation has not got past the merge stage
\* (it has made at most the first three calls, or failed a check of main),
\* the whole file system is what it was when the invocation started.
C9_NoWriteBeforeSave ==
  \A i \in Procs :
    i = last /\ Len(calls[i]) <= 3 => fs = pre[i]

\* C9 witness: the merge stage raised, the process exited 1, and the output
\* path is still absent
C9_Witness ==
  \E i \in Procs :
    /\ i = last /\ Finished(i) /\ exit[i] = 1
    /\ calls[i] = SubSeq(CallOrder, 1, 3) /\ exc[i] = "EnvError"
    /\ fs[output_path(i)] = Absent

\* C10: for the latest invocation, started on an absent or empty output
\* path: whenever merge_info.json exists there, all eight calls have been
\* made and the complete weights and tokenizer of this invocation are there;
\* and when the weight save or a tokenizer call raised, the output directory
\* still exists, holds the weights if they were saved, and no merge_info.json.
C10_InfoWrittenLast ==
  \A i \in Procs :
    i = last /\ HasPositional(i) /\ IsEmptyOrAbsent(pre[i][output_path(i)]) =>
      LET e == fs[output_path(i)] IN
        /\ e.info # {} =>
             /\ calls[i] = CallOrder
             /\ e.weights = {WeightsOf(base_model_path(i), adapter_path(i))}
             /\ e.tok = {TokOf(adapter_path(i))}
        /\ exc[i] # "none" /\ Len(calls[i]) \in 5..7 =>
             /\ e.kind = "dir"
             /\ e.info = {}
             /\ Len(calls[i]) >= 6 => e.weights = {WeightsOf(base_model_path(i), adapter_path(i))}

\* C10 witness: the tokenizer save raised after the weights were saved, and
\* the process has exited
C10_Witness ==
  \E i \in Procs :
    /\ i = last /\ Finished(i) /\ HasPositional(i)
    /\ IsEmptyOrAbsent(pre[i][output_path(i)])
    /\ calls[i] = SubSeq(CallOrder, 1, 7) /\ exc[i] = "EnvError"
    /\ fs[output_path(i)].weights # {}

====
